---- MODULE Spec2Model ----
(***************************************************************************)
(* DailyWeatherForecastCalendar.fetch_events (src/integrations/weather.py) *)
(* as a state machine: input validation, the geocoding call, the forecast  *)
(* call, day bucketing, per-day aggregation and the outer exception        *)
(* handlers.  Strings that the code trims are sequences of characters;     *)
(* timestamps are integers in seconds.                                     *)
(***************************************************************************)
EXTENDS Integers, Sequences, FiniteSets, TLC

\* ------------------------------------------------------------------ bounds
\* days arguments range over (1 - DaysSpread) .. (MaxForecastDays + DaysSpread)
DaysSpread == 2
\* the longest chronological upstream forecast, in distinct UTC days
MaxUpstreamDays == 6
\* the longest upstream forecast list built from arbitrary samples
MaxSamples == 2
\* the most entries of one day in an upstream forecast built around one day
MaxDayTemps == 3

\* ------------------------------------------------------- program constants
MaxForecastDays == 5
MinForecastDays == 1
DaySeconds == 86400

\* ------------------------------------------------------------------ values
\* Python None for an optional string: a sequence that is no string of Chars
None == <<"None">>

Chars == {" ", "a"}

\* the location arguments tried
Locations == {<<>>, <<" ">>, <<" ", " ">>, <<"a">>, <<" ", "a", " ">>}

\* the api_key arguments and the OPENWEATHERMAP_API_KEY values tried
ApiKeys == {None, <<" ">>, <<" ", "a">>}
EnvKeys == {None, <<"a">>}

DaysArgs == (MinForecastDays - DaysSpread) .. (MaxForecastDays + DaysSpread)

UnitsArgs == {"metric", "imperial", "kelvin", "Imperial", "celsius"}

\* str.lower on the units strings tried
Lower(s) ==
    CASE s = "Imperial" -> "imperial"
      [] OTHER -> s

\* str.strip: drop leading and trailing whitespace
RECURSIVE LStrip(_)
LStrip(s) ==
    IF s = <<>> THEN <<>>
    ELSE IF Head(s) = " " THEN LStrip(Tail(s)) ELSE s

RECURSIVE RStrip(_)
RStrip(s) ==
    IF s = <<>> THEN <<>>
    ELSE IF s[Len(s)] = " " THEN RStrip(SubSeq(s, 1, Len(s) - 1)) ELSE s

Strip(s) == RStrip(LStrip(s))

\* "not s or not s.strip()" for an optional string
Blank(s) == s = None \/ s = <<>> \/ Strip(s) = <<>>

\* days = min(max(days, 1), 5)
ClampDays(d) ==
    IF d < MinForecastDays \/ d > MaxForecastDays
    THEN (LET lo == IF d > MinForecastDays THEN d ELSE MinForecastDays
          IN IF lo < MaxForecastDays THEN lo ELSE MaxForecastDays)
    ELSE d

AllowedUnits == {"metric", "imperial", "kelvin"}

\* mutant: the default to "metric" is lost
NormalizeUnitsNoDefault(u) == Lower(u)

NormalizeUnits(u) ==
    LET l == Lower(u) IN IF l \notin AllowedUnits THEN "metric" ELSE l

\* ------------------------------------------------------------- exceptions
NoDetail == [text |-> "", msg |-> "", loc |-> <<>>]

Detail(t) == [text |-> t, msg |-> "", loc |-> <<>>]

DetailMsg(t, m) == [text |-> t, msg |-> m, loc |-> <<>>]

DetailLoc(t, l) == [text |-> t, msg |-> "", loc |-> l]

\* fastapi.HTTPException(status_code, detail)
HTTPException(code, detail) ==
    [type |-> "HTTPException", status |-> code, detail |-> detail]

\* requests.RequestException (timeouts, connection errors, HTTPError)
RequestException(m) ==
    [type |-> "RequestException", status |-> 0, detail |-> DetailMsg("", m)]

\* any other exception (KeyError, TypeError, ValueError, IndexError, ...)
OtherException(m) ==
    [type |-> "Exception", status |-> 0, detail |-> DetailMsg("", m)]

NoException == [type |-> "none", status |-> 0, detail |-> NoDetail]

\* mutant: every exception that is no HTTPException becomes a 500
ClassifyAll500(e) ==
    CASE e.type = "HTTPException" -> [status |-> e.status, detail |-> e.detail]
      [] OTHER ->
            [status |-> 500,
             detail |-> DetailMsg("Failed to fetch weather events", e.detail.msg)]

\* the except clauses at the end of fetch_events
Classify(e) ==
    CASE e.type = "HTTPException" -> [status |-> e.status, detail |-> e.detail]
      [] e.type = "RequestException" ->
            [status |-> 502,
             detail |-> DetailMsg("Weather API request failed", e.detail.msg)]
      [] OTHER ->
            [status |-> 500,
             detail |-> DetailMsg("Failed to fetch weather events", e.detail.msg)]

\* ------------------------------------------------------- upstream responses
HttpStatuses == {200, 401, 404, 429}

\* Response.raise_for_status raises HTTPError for 4xx and 5xx
RaisesForStatus(status) == status >= 400 /\ status < 600

\* the "cod" member of a JSON object: absent, a string or a number
NoCod == [type |-> "absent", text |-> ""]

CodValues ==
    {NoCod}
    \cup {[type |-> "str", text |-> t] : t \in {"200", "401", "429", "404", "abc"}}
    \cup {[type |-> "num", text |-> t] : t \in {"200", "404"}}

\* cod == "401" in Python: a string with that text
CodIs(cod, t) == cod.type = "str" /\ cod.text = t

\* int(x) on the cod texts tried; -1 stands for ValueError
ParseInt(t) ==
    CASE t = "200" -> 200
      [] t = "401" -> 401
      [] t = "404" -> 404
      [] t = "429" -> 429
      [] OTHER -> -1

Messages == {"Invalid key"}

\* one element of the geocoding result list
Places ==
    {[hasCoords |-> TRUE, hasName |-> TRUE, name |-> <<"C">>],
     [hasCoords |-> TRUE, hasName |-> FALSE, name |-> <<>>],
     [hasCoords |-> FALSE, hasName |-> TRUE, name |-> <<"C">>]}

Body(kind, cod, hasMessage, message, other, items) ==
    [kind |-> kind, cod |-> cod, hasMessage |-> hasMessage, message |-> message,
     other |-> other, items |-> items]

\* response bodies: not JSON, JSON null, a JSON array, a JSON object.  In an
\* object, "other" says that it has a member besides "cod" and "message"
\* (for the forecast: the "list" member, whose value is items).
InvalidBody == Body("invalid", NoCod, FALSE, "", FALSE, <<>>)
NullBody == Body("null", NoCod, FALSE, "", FALSE, <<>>)

ObjectBodies(itemLists) ==
    {Body("dict", c, FALSE, "", o, IF o THEN l ELSE <<>>) :
        c \in CodValues, o \in BOOLEAN, l \in itemLists}
    \cup {Body("dict", c, TRUE, m, o, IF o THEN l ELSE <<>>) :
        c \in CodValues, m \in Messages, o \in BOOLEAN, l \in itemLists}

GeocodeBodies ==
    {InvalidBody, NullBody}
    \cup {Body("list", NoCod, FALSE, "", FALSE, l) :
            l \in {<<>>} \cup {<<p>> : p \in Places}}
    \cup ObjectBodies({<<>>})

\* --------------------------------------------------------- forecast samples
\* main.temp is a float: temperatures are held in units of 1 / TempScale degree
TempScale == 10

\* one 3-hour forecast entry: "dt", main.temp, wind.deg.  kind "noweather" has
\* "weather": [] (IndexError on [0]); kind "nulltemp" has main.temp null
\* (TypeError when the day's temperatures are aggregated).
Sample(dt, temp, deg, kind) == [dt |-> dt, temp |-> temp, deg |-> deg, kind |-> kind]

Day1Late == 2 * DaySeconds - 1
Day2Start == 2 * DaySeconds

Day1Start == DaySeconds

Samples ==
    {Sample(0, 300, 180, "ok"),
     Sample(Day1Late, 100, 0, "ok"),
     Sample(Day1Late, 206, 90, "ok"),
     Sample(Day1Start, -15, 350, "ok"),
     Sample(Day1Late, 200, 90, "noweather"),
     Sample(Day2Start, 150, 90, "ok"),
     Sample(Day2Start, 0, 0, "nulltemp")}

SeqsUpTo(S, n) == UNION {[1..k -> S] : k \in 0..n}

\* a chronological forecast with one noon sample per day for k days,
\* ascending or descending
HorizonList(k, descending) ==
    [i \in 1..k |->
        LET d == IF descending THEN k + 1 - i ELSE i
        IN Sample(d * DaySeconds + DaySeconds \div 2, (10 + d) * TempScale, 0, "ok")]

\* the temperatures of the forecasts built around one day
TempValues == {-15, 100, 150, 200}

\* a forecast with one entry per temperature of temps on day 3, after an
\* entry without timestamp and before an entry of day 4
DayList(temps) ==
    <<Sample(0, 990, 0, "ok")>>
    \o [i \in 1..Len(temps) |-> Sample(3 * DaySeconds + i, temps[i], 0, "ok")]
    \o <<Sample(4 * DaySeconds, 400, 0, "ok")>>

ForecastLists ==
    SeqsUpTo(Samples, MaxSamples)
    \cup {HorizonList(k, desc) : k \in 0..MaxUpstreamDays, desc \in BOOLEAN}
    \cup {DayList(t) : t \in SeqsUpTo(TempValues, MaxDayTemps)}

\* the body OpenWeatherMap sends with a forecast
OkBody(l) == Body("dict", [type |-> "str", text |-> "200"], TRUE, "0", TRUE, l)

ProbeLists == {<<Sample(Day1Late, 100, 0, "ok")>>}

ForecastBodies ==
    {InvalidBody, NullBody}
    \cup ObjectBodies(ProbeLists)
    \cup {OkBody(l) : l \in ForecastLists}

\* ------------------------------------------------- checks of a response
\* mutant: the embedded "401"/"429" codes get no branch of their own
UpstreamErrorNoEmbedded(r) ==
    LET b == r.body IN
    IF r.status = 401 THEN HTTPException(401, Detail("Invalid API key"))
    ELSE IF r.status = 429 THEN HTTPException(429, Detail("API rate limit exceeded"))
    ELSE IF b.kind = "invalid" THEN
        (IF RaisesForStatus(r.status) THEN RequestException("HTTPError")
         ELSE HTTPException(500, Detail("Invalid response from weather API")))
    ELSE IF b.kind # "dict" THEN NoException
    ELSE IF b.hasMessage /\ ~CodIs(b.cod, "200") THEN
        (IF b.cod.type = "absent" THEN
            HTTPException(500, DetailMsg("Weather API error", b.message))
         ELSE IF b.cod.type = "str" /\ ParseInt(b.cod.text) = -1 THEN
            OtherException("invalid literal for int()")
         ELSE HTTPException(ParseInt(b.cod.text),
                            DetailMsg("Weather API error", b.message)))
    ELSE NoException

\* mutant: an embedded error is always raised with status 500
UpstreamErrorAlways500(r) ==
    LET b == r.body IN
    IF r.status = 401 THEN HTTPException(401, Detail("Invalid API key"))
    ELSE IF r.status = 429 THEN HTTPException(429, Detail("API rate limit exceeded"))
    ELSE IF b.kind = "invalid" THEN
        (IF RaisesForStatus(r.status) THEN RequestException("HTTPError")
         ELSE HTTPException(500, Detail("Invalid response from weather API")))
    ELSE IF b.kind # "dict" THEN NoException
    ELSE IF CodIs(b.cod, "401") THEN
        HTTPException(401, Detail(IF b.hasMessage THEN b.message ELSE "Invalid API key"))
    ELSE IF CodIs(b.cod, "429") THEN
        HTTPException(429, Detail(IF b.hasMessage THEN b.message
                                  ELSE "API rate limit exceeded"))
    ELSE IF b.hasMessage /\ ~CodIs(b.cod, "200") THEN
        HTTPException(500, DetailMsg("Weather API error", b.message))
    ELSE NoException

\* the checks both steps apply to a response: HTTP 401/429, response.json(),
\* and the error codes embedded in a JSON object
UpstreamError(r) ==
    LET b == r.body IN
    IF r.status = 401 THEN HTTPException(401, Detail("Invalid API key"))
    ELSE IF r.status = 429 THEN HTTPException(429, Detail("API rate limit exceeded"))
    ELSE IF b.kind = "invalid" THEN
        (IF RaisesForStatus(r.status) THEN RequestException("HTTPError")
         ELSE HTTPException(500, Detail("Invalid response from weather API")))
    ELSE IF b.kind # "dict" THEN NoException
    ELSE IF CodIs(b.cod, "401") THEN
        HTTPException(401, Detail(IF b.hasMessage THEN b.message ELSE "Invalid API key"))
    ELSE IF CodIs(b.cod, "429") THEN
        HTTPException(429, Detail(IF b.hasMessage THEN b.message
                                  ELSE "API rate limit exceeded"))
    ELSE IF b.hasMessage /\ ~CodIs(b.cod, "200") THEN
        (IF b.cod.type = "absent" THEN
            HTTPException(500, DetailMsg("Weather API error", b.message))
         ELSE IF b.cod.type = "str" /\ ParseInt(b.cod.text) = -1 THEN
            OtherException("invalid literal for int()")
         ELSE HTTPException(ParseInt(b.cod.text),
                            DetailMsg("Weather API error", b.message)))
    ELSE NoException

\* "not geocode_data or len(geocode_data) == 0"
EmptyJson(b) ==
    \/ b.kind = "null"
    \/ b.kind = "list" /\ b.items = <<>>
    \/ b.kind = "dict" /\ b.cod.type = "absent" /\ ~b.hasMessage /\ ~b.other

\* mutant: an empty result is not checked for, so [0] raises
GeocodeErrorNoEmptyCheck(r, loc) ==
    LET e == UpstreamError(r) IN
    IF e # NoException THEN e
    ELSE IF RaisesForStatus(r.status) THEN RequestException("HTTPError")
    ELSE IF EmptyJson(r.body) THEN OtherException("IndexError: list index out of range")
    ELSE IF r.body.kind = "dict" THEN OtherException("KeyError: 0")
    ELSE IF ~r.body.items[1].hasCoords THEN OtherException("KeyError: 'lat'")
    ELSE NoException

\* mutant: raise_for_status is not called after the body checks
GeocodeErrorNoStatusCheck(r, loc) ==
    LET e == UpstreamError(r) IN
    IF e # NoException THEN e
    ELSE IF EmptyJson(r.body) THEN
        HTTPException(404, DetailLoc("Location not found", loc))
    ELSE IF r.body.kind = "dict" THEN OtherException("KeyError: 0")
    ELSE IF ~r.body.items[1].hasCoords THEN OtherException("KeyError: 'lat'")
    ELSE NoException

\* what the geocoding step raises for response r and query loc
GeocodeError(r, loc) ==
    LET e == UpstreamError(r) IN
    IF e # NoException THEN e
    ELSE IF RaisesForStatus(r.status) THEN RequestException("HTTPError")
    ELSE IF EmptyJson(r.body) THEN
        HTTPException(404, DetailLoc("Location not found", loc))
    ELSE IF r.body.kind = "dict" THEN OtherException("KeyError: 0")
    ELSE IF ~r.body.items[1].hasCoords THEN OtherException("KeyError: 'lat'")
    ELSE NoException

\* city_name = geocode_data[0].get("name", location)
CityName(r, loc) ==
    IF r.body.items[1].hasName THEN r.body.items[1].name ELSE loc

\* what the forecast step raises for response r
ForecastError(r) ==
    LET e == UpstreamError(r) IN
    IF e # NoException THEN e
    ELSE IF RaisesForStatus(r.status) THEN RequestException("HTTPError")
    ELSE IF r.body.kind # "dict" THEN OtherException("TypeError: not iterable")
    ELSE IF ~r.body.other THEN
        HTTPException(500, Detail("Invalid forecast response format"))
    ELSE NoException

\* ------------------------------------------------------------ day bucketing
\* mutant: the timestamp is rounded to the nearest midnight
UtcDateRounded(timestamp) == (timestamp + DaySeconds \div 2) \div DaySeconds

\* datetime.utcfromtimestamp(timestamp).date(), as a day number
UtcDate(timestamp) == timestamp \div DaySeconds

EmptyDict == [d \in {} |-> <<>>]

\* daily_forecasts[day_key] gets forecast appended (the bucket is made first)
AddToBucket(daily, f) ==
    LET day_key == UtcDate(f.dt) IN
    IF day_key \in DOMAIN daily
    THEN [daily EXCEPT ![day_key] = Append(@, f)]
    ELSE daily @@ (day_key :> <<f>>)

\* mutant: entries with dt 0 are bucketed like the others
RECURSIVE GroupByDayKeepZero(_, _)
GroupByDayKeepZero(list, daily) ==
    IF list = <<>> THEN [failed |-> FALSE, daily |-> daily]
    ELSE LET f == Head(list) IN
         IF f.kind = "noweather"
         THEN [failed |-> TRUE, daily |-> AddToBucket(daily, f)]
         ELSE GroupByDayKeepZero(Tail(list), AddToBucket(daily, f))

\* the loop over forecast_data["list"]: entries with dt 0 are skipped; an
\* entry whose "weather" list is empty raises IndexError
RECURSIVE GroupByDay(_, _)
GroupByDay(list, daily) ==
    IF list = <<>> THEN [failed |-> FALSE, daily |-> daily]
    ELSE LET f == Head(list) IN
         IF f.dt = 0 THEN GroupByDay(Tail(list), daily)
         ELSE IF f.kind = "noweather"
              THEN [failed |-> TRUE, daily |-> AddToBucket(daily, f)]
              ELSE GroupByDay(Tail(list), AddToBucket(daily, f))

SetMin(S) == CHOOSE x \in S : \A y \in S : x <= y

\* sorted(keys)
RECURSIVE Sorted(_)
Sorted(S) ==
    IF S = {} THEN <<>>
    ELSE LET m == SetMin(S) IN <<m>> \o Sorted(S \ {m})

\* seq[:n] for n >= 0
Take(seq, n) == SubSeq(seq, 1, IF n < Len(seq) THEN n ELSE Len(seq))

\* mutant: the slice [:days] is lost
SortedDaysAll(daily, n) == Sorted(DOMAIN daily)

\* sorted(daily_forecasts.keys())[:days]
SortedDays(daily, n) == Take(Sorted(DOMAIN daily), n)

\* ------------------------------------------------------- daily aggregation
RECURSIVE SumOf(_)
SumOf(seq) == IF seq = <<>> THEN 0 ELSE Head(seq) + SumOf(Tail(seq))

RECURSIVE MinOf(_)
MinOf(seq) ==
    IF Len(seq) = 1 THEN seq[1]
    ELSE LET m == MinOf(Tail(seq)) IN IF seq[1] <= m THEN seq[1] ELSE m

RECURSIVE MaxOf(_)
MaxOf(seq) ==
    IF Len(seq) = 1 THEN seq[1]
    ELSE LET m == MaxOf(Tail(seq)) IN IF seq[1] >= m THEN seq[1] ELSE m

\* int(a / b) for b > 0: truncation toward zero
TruncDiv(a, b) == IF a >= 0 THEN a \div b ELSE -((-a) \div b)

\* mutant: the zero readings are kept
PositiveAll(seq) == seq

\* [d for d in wind_degs if d > 0]
RECURSIVE Positive(_)
Positive(seq) ==
    IF seq = <<>> THEN <<>>
    ELSE IF Head(seq) > 0 THEN <<Head(seq)>> \o Positive(Tail(seq))
         ELSE Positive(Tail(seq))

Directions ==
    <<"N", "NNE", "NE", "ENE", "E", "ESE", "SE", "SSE",
      "S", "SSW", "SW", "WSW", "W", "WNW", "NW", "NNW">>

\* directions[int((wind_deg_avg + 11.25) / 22.5) % 16] with wind_deg_avg the
\* mean of degs (0 when degs is empty), or "" when wind_deg_avg > 0 fails and
\* there is no direction clause
WindDirection(degs) ==
    LET s == SumOf(degs)
        n == Len(degs)
    IN IF n = 0 \/ s <= 0 THEN ""
       ELSE Directions[(((4 * s + 45 * n) \div (90 * n)) % 16) + 1]

TempUnit(u) == IF u = "metric" THEN "degC" ELSE IF u = "imperial" THEN "degF" ELSE "K"

WindUnit(u) == IF u = "metric" THEN "m/s" ELSE IF u = "imperial" THEN "mph" ELSE "m/s"

\* TRUE when aggregating the bucket raises (sum over a null temperature)
AggregateFails(bucket) == \E i \in 1..Len(bucket) : bucket[i].kind = "nulltemp"

\* the Event built for one day: start and end are timestamps of midnight UTC;
\* temp_avg, temp_min and temp_max are int(temp_avg), int(temp_min) and
\* int(temp_max), in whole degrees
DayEvent(day_key, bucket, u, city) ==
    LET temps == [i \in 1..Len(bucket) |-> bucket[i].temp]
        degs == Positive([i \in 1..Len(bucket) |-> bucket[i].deg])
    IN [start |-> day_key * DaySeconds,
        end |-> day_key * DaySeconds + DaySeconds,
        all_day |-> TRUE,
        temp_avg |-> TruncDiv(SumOf(temps), Len(temps) * TempScale),
        temp_min |-> TruncDiv(MinOf(temps), TempScale),
        temp_max |-> TruncDiv(MaxOf(temps), TempScale),
        temp_unit |-> TempUnit(u),
        wind_unit |-> WindUnit(u),
        wind_dir |-> WindDirection(degs),
        location |-> city]

\* -------------------------------------------------------------------- state
VARIABLES
    pc,                \* position in fetch_events
    location,          \* the location argument, then its trimmed value
    api_key,           \* the api_key argument, then the resolved key
    env_key,           \* os.getenv("OPENWEATHERMAP_API_KEY")
    days,              \* the days argument, then its clamped value
    units,             \* the units argument, then its normalized value
    req_days,          \* the days argument as passed (history)
    req_units,         \* the units argument as passed (history)
    calls,             \* the upstream requests issued, in order
    geocode_response,  \* the geocoding response received
    location_display,  \* the city name shown in the events
    forecast_response, \* the forecast response received
    daily_forecasts,   \* day number -> the day's samples
    sorted_days,       \* the days to be turned into events
    events,            \* the local list of events built so far
    self_events,       \* the calendar object's events field
    raised,            \* the exception raised inside the try block
    result             \* what the call gave its caller

vars ==
    <<pc, location, api_key, env_key, days, units, req_days, req_units, calls,
      geocode_response, location_display, forecast_response, daily_forecasts,
      sorted_days, events, self_events, raised, result>>

NoResponse == [status |-> 0, body |-> NullBody]

Pending == [kind |-> "pending", status |-> 0, detail |-> NoDetail, events |-> <<>>]

\* the call starts on a calendar built by fetch_events_wrapper with events=[]
Init ==
    /\ pc = "start"
    /\ location \in Locations
    /\ api_key \in ApiKeys
    /\ env_key \in EnvKeys
    /\ days \in DaysArgs
    /\ units \in UnitsArgs
    /\ req_days = days
    /\ req_units = units
    /\ calls = <<>>
    /\ geocode_response = NoResponse
    /\ location_display = <<>>
    /\ forecast_response = NoResponse
    /\ daily_forecasts = EmptyDict
    /\ sorted_days = <<>>
    /\ events = <<>>
    /\ self_events = <<>>
    /\ raised = NoException
    /\ result = Pending

\* an exception leaves the try block: the except clauses turn it into the
\* HTTPException the caller sees
Raise(e) ==
    /\ pc' = "failed"
    /\ raised' = e
    /\ result' = [kind |-> "raised", status |-> Classify(e).status,
                  detail |-> Classify(e).detail, events |-> <<>>]

\* mutant: the credential is checked before the location
ValidationErrorKeyFirst(loc, key, env) ==
    IF Blank(key) /\ Blank(env)
    THEN HTTPException(500, Detail("OpenWeatherMap API key not configured"))
    ELSE IF Blank(loc) THEN HTTPException(400, Detail("Location is required"))
         ELSE NoException

\* the exception of input validation and credential resolution, if any
ValidationError(loc, key, env) ==
    IF Blank(loc) THEN HTTPException(400, Detail("Location is required"))
    ELSE IF Blank(key) /\ Blank(env)
         THEN HTTPException(500, Detail("OpenWeatherMap API key not configured"))
         ELSE NoException

\* api_key, else the environment value, trimmed
ResolveKey(key, env) == Strip(IF Blank(key) THEN env ELSE key)

Validate ==
    /\ pc = "start"
    /\ LET e == ValidationError(location, api_key, env_key) IN
       IF e # NoException
       THEN /\ Raise(e)
            /\ UNCHANGED <<location, api_key, days, units>>
       ELSE /\ api_key' = ResolveKey(api_key, env_key)
            /\ days' = ClampDays(days)
            /\ location' = Strip(location)
            /\ units' = NormalizeUnits(units)
            /\ pc' = "geocode"
            /\ UNCHANGED <<raised, result>>
    /\ UNCHANGED <<env_key, req_days, req_units, calls, geocode_response,
                   location_display, forecast_response, daily_forecasts,
                   sorted_days, events, self_events>>

GeocodeCall == [endpoint |-> "geocode", q |-> location, units |-> "", appid |-> api_key]

\* requests.get(geocode_url, ...) returns a response
GeocodeGet ==
    /\ pc = "geocode"
    /\ \E s \in HttpStatuses, b \in GeocodeBodies :
          geocode_response' = [status |-> s, body |-> b]
    /\ calls' = Append(calls, GeocodeCall)
    /\ pc' = "geocode_check"
    /\ UNCHANGED <<location, api_key, env_key, days, units, req_days, req_units,
                   location_display, forecast_response, daily_forecasts,
                   sorted_days, events, self_events, raised, result>>

\* requests.get(geocode_url, ...) raises (timeout, connection error)
GeocodeGetFails ==
    /\ pc = "geocode"
    /\ calls' = Append(calls, GeocodeCall)
    /\ Raise(RequestException("timeout"))
    /\ UNCHANGED <<location, api_key, env_key, days, units, req_days, req_units,
                   geocode_response, location_display, forecast_response,
                   daily_forecasts, sorted_days, events, self_events>>

\* the checks of the geocoding response and the extraction of the place
GeocodeCheck ==
    /\ pc = "geocode_check"
    /\ LET e == GeocodeError(geocode_response, location) IN
       IF e # NoException
       THEN /\ Raise(e)
            /\ UNCHANGED location_display
       ELSE /\ location_display' = CityName(geocode_response, location)
            /\ pc' = "forecast"
            /\ UNCHANGED <<raised, result>>
    /\ UNCHANGED <<location, api_key, env_key, days, units, req_days, req_units,
                   calls, geocode_response, forecast_response, daily_forecasts,
                   sorted_days, events, self_events>>

ForecastCall == [endpoint |-> "forecast", q |-> <<>>, units |-> units, appid |-> api_key]

\* requests.get(forecast_url, ...) returns a response
ForecastGet ==
    /\ pc = "forecast"
    /\ \E s \in HttpStatuses, b \in ForecastBodies :
          forecast_response' = [status |-> s, body |-> b]
    /\ calls' = Append(calls, ForecastCall)
    /\ pc' = "forecast_check"
    /\ UNCHANGED <<location, api_key, env_key, days, units, req_days, req_units,
                   geocode_response, location_display, daily_forecasts,
                   sorted_days, events, self_events, raised, result>>

\* requests.get(forecast_url, ...) raises (timeout, connection error)
ForecastGetFails ==
    /\ pc = "forecast"
    /\ calls' = Append(calls, ForecastCall)
    /\ Raise(RequestException("timeout"))
    /\ UNCHANGED <<location, api_key, env_key, days, units, req_days, req_units,
                   geocode_response, location_display, forecast_response,
                   daily_forecasts, sorted_days, events, self_events>>

\* the checks of the forecast response
ForecastCheck ==
    /\ pc = "forecast_check"
    /\ LET e == ForecastError(forecast_response) IN
       IF e # NoException
       THEN Raise(e)
       ELSE /\ pc' = "bucket"
            /\ UNCHANGED <<raised, result>>
    /\ UNCHANGED <<location, api_key, env_key, days, units, req_days, req_units,
                   calls, geocode_response, location_display, forecast_response,
                   daily_forecasts, sorted_days, events, self_events>>

\* the grouping loop and sorted(daily_forecasts.keys())[:days]
Bucket ==
    /\ pc = "bucket"
    /\ LET g == GroupByDay(forecast_response.body.items, EmptyDict) IN
       IF g.failed
       THEN /\ Raise(OtherException("IndexError: list index out of range"))
            /\ daily_forecasts' = g.daily
            /\ UNCHANGED sorted_days
       ELSE /\ daily_forecasts' = g.daily
            /\ sorted_days' = SortedDays(g.daily, days)
            /\ pc' = "aggregate"
            /\ UNCHANGED <<raised, result>>
    /\ UNCHANGED <<location, api_key, env_key, days, units, req_days, req_units,
                   calls, geocode_response, location_display, forecast_response,
                   events, self_events>>

\* mutant: each Event is stored in self.events as soon as it is built
AggregateDayPublishing ==
    /\ pc = "aggregate"
    /\ Len(events) < Len(sorted_days)
    /\ LET day_key == sorted_days[Len(events) + 1]
           bucket == daily_forecasts[day_key]
       IN IF AggregateFails(bucket)
          THEN /\ Raise(OtherException("TypeError: unsupported operand type(s)"))
               /\ UNCHANGED <<events, self_events>>
          ELSE /\ events' = Append(events, DayEvent(day_key, bucket, units,
                                                    location_display))
               /\ self_events' = events'
               /\ UNCHANGED <<pc, raised, result>>
    /\ UNCHANGED <<location, api_key, env_key, days, units, req_days, req_units,
                   calls, geocode_response, location_display, forecast_response,
                   daily_forecasts, sorted_days>>

\* one iteration of "for day_key in sorted_days"
AggregateDay ==
    /\ pc = "aggregate"
    /\ Len(events) < Len(sorted_days)
    /\ LET day_key == sorted_days[Len(events) + 1]
           bucket == daily_forecasts[day_key]
       IN IF AggregateFails(bucket)
          THEN /\ Raise(OtherException("TypeError: unsupported operand type(s)"))
               /\ UNCHANGED events
          ELSE /\ events' = Append(events, DayEvent(day_key, bucket, units,
                                                    location_display))
               /\ UNCHANGED <<pc, raised, result>>
    /\ UNCHANGED <<location, api_key, env_key, days, units, req_days, req_units,
                   calls, geocode_response, location_display, forecast_response,
                   daily_forecasts, sorted_days, self_events>>

\* self.events = events; return events
Return ==
    /\ pc = "aggregate"
    /\ Len(events) = Len(sorted_days)
    /\ self_events' = events
    /\ result' = [kind |-> "returned", status |-> 200, detail |-> NoDetail,
                  events |-> events]
    /\ pc' = "done"
    /\ UNCHANGED <<location, api_key, env_key, days, units, req_days, req_units,
                   calls, geocode_response, location_display, forecast_response,
                   daily_forecasts, sorted_days, events, raised>>

Next ==
    \/ Validate
    \/ GeocodeGet
    \/ GeocodeGetFails
    \/ GeocodeCheck
    \/ ForecastGet
    \/ ForecastGetFails
    \/ ForecastCheck
    \/ Bucket
    \/ AggregateDay
    \/ Return

Spec == Init /\ [][Next]_vars

\* =================================================================== claims
\* the forecast list the upstream sent
UpstreamList == forecast_response.body.items

\* the UTC days of the entries of the upstream list (a missing dt reads as 0)
DaysPresent == {UpstreamList[i].dt \div DaySeconds : i \in 1..Len(UpstreamList)}

\* the UTC days with at least one entry whose timestamp is not zero
NonzeroDays ==
    {UpstreamList[i].dt \div DaySeconds :
        i \in {j \in 1..Len(UpstreamList) : UpstreamList[j].dt # 0}}

Min2(a, b) == IF a <= b THEN a ELSE b

StrictlyAscending(evs) ==
    \A i \in 1..Len(evs) : \A j \in 1..Len(evs) : i < j => evs[i].start < evs[j].start

\* C1 as stated: a successful call returns at most min(requested days, 5,
\* distinct upstream days) Events, in strictly ascending order of start date.
C1_AsStated ==
    pc = "done" =>
        /\ Len(result.events) <= Min2(req_days, Min2(5, Cardinality(DaysPresent)))
        /\ StrictlyAscending(result.events)

\* C1 amended: a successful call returns at most min(max(requested days, 1), 5,
\* distinct upstream days) Events, in strictly ascending order of start date.
C1_CountBound ==
    pc = "done" =>
        /\ Len(result.events)
              <= Min2(IF req_days < 1 THEN 1 ELSE req_days,
                      Min2(5, Cardinality(DaysPresent)))
        /\ StrictlyAscending(result.events)

\* more than 5 days requested, a descending upstream list, 5 Events returned
C1_Witness ==
    /\ pc = "done"
    /\ req_days > 5
    /\ Len(UpstreamList) >= 2
    /\ UpstreamList[1].dt > UpstreamList[2].dt
    /\ Len(result.events) = 5

EventDays(evs) == {evs[i].start \div DaySeconds : i \in 1..Len(evs)}

\* C2 as stated: when more days are requested than the upstream has distinct
\* days with a nonzero timestamp, a successful call returns exactly one Event
\* per such day.
C2_AsStated ==
    (pc = "done" /\ req_days > Cardinality(NonzeroDays)) =>
        /\ Len(result.events) = Cardinality(NonzeroDays)
        /\ EventDays(result.events) = NonzeroDays

\* C2 amended: when more days are requested than the upstream has distinct
\* days with a nonzero timestamp, and the upstream has at most 5 such days, a
\* successful call returns exactly one Event per such day.
C2_ExactlyAvailable ==
    (/\ pc = "done"
     /\ req_days > Cardinality(NonzeroDays)
     /\ Cardinality(NonzeroDays) <= 5) =>
        /\ Len(result.events) = Cardinality(NonzeroDays)
        /\ EventDays(result.events) = NonzeroDays

\* more than 5 days requested, 5 distinct upstream days, 5 Events returned
C2_Witness ==
    /\ pc = "done"
    /\ req_days > 5
    /\ Cardinality(NonzeroDays) = 5
    /\ Len(result.events) = 5

\* the units parameters sent to the forecast endpoint
SentUnits == {calls[i].units : i \in {j \in 1..Len(calls) : calls[j].endpoint = "forecast"}}

\* the Events built so far are those a units="metric" call builds
MetricEvents ==
    \A i \in 1..Len(events) :
        events[i] = DayEvent(sorted_days[i], daily_forecasts[sorted_days[i]],
                             "metric", location_display)

\* C3 as stated: a units string that is not exactly "metric", "imperial" or
\* "kelvin" is handled as "metric": "metric" is sent to the forecast endpoint
\* and the Events are those of a metric call.
C3_AsStated ==
    req_units \notin {"metric", "imperial", "kelvin"} =>
        /\ SentUnits \subseteq {"metric"}
        /\ MetricEvents
        /\ pc = "done" => result.events = events

\* C3 amended: a units string whose lower-case form is not "metric",
\* "imperial" or "kelvin" is handled as "metric": "metric" is sent to the
\* forecast endpoint and the Events are those of a metric call.
C3_UnknownUnitsAreMetric ==
    Lower(req_units) \notin {"metric", "imperial", "kelvin"} =>
        /\ SentUnits \subseteq {"metric"}
        /\ MetricEvents
        /\ pc = "done" => result.events = events

\* an unknown units string and a returned Event in degrees Celsius
C3_Witness ==
    /\ pc = "done"
    /\ req_units = "celsius"
    /\ Len(result.events) >= 1
    /\ result.events[1].temp_unit = "degC"

\* the geocoding (forecast) response has been received and checked
GeocodeChecked == geocode_response # NoResponse /\ pc # "geocode_check"

ForecastChecked == forecast_response # NoResponse /\ pc # "forecast_check"

\* an HTTP 200 response whose JSON object carries "cod" equal to the string t
EmbeddedCode(r, t) ==
    /\ r.status = 200
    /\ r.body.kind = "dict"
    /\ r.body.cod = [type |-> "str", text |-> t]

\* the call failed with status code and, when the body has a message, with
\* that message as its detail
FailedWithBodyMessage(r, code) ==
    /\ pc = "failed"
    /\ result.kind = "raised"
    /\ result.status = code
    /\ r.body.hasMessage => result.detail = Detail(r.body.message)
    /\ result.events = <<>>

\* C4: in both steps an HTTP 200 response whose JSON object has "cod" "401"
\* (resp. "429") makes the call fail with status 401 (resp. 429), the body's
\* message as detail, and no Events.
C4_EmbeddedAuthAndRateLimit ==
    /\ (GeocodeChecked /\ EmbeddedCode(geocode_response, "401"))
          => FailedWithBodyMessage(geocode_response, 401)
    /\ (GeocodeChecked /\ EmbeddedCode(geocode_response, "429"))
          => FailedWithBodyMessage(geocode_response, 429)
    /\ (ForecastChecked /\ EmbeddedCode(forecast_response, "401"))
          => FailedWithBodyMessage(forecast_response, 401)
    /\ (ForecastChecked /\ EmbeddedCode(forecast_response, "429"))
          => FailedWithBodyMessage(forecast_response, 429)

\* the forecast answered HTTP 200 with {"cod": "401", "message": "Invalid key"}
C4_Witness ==
    /\ ForecastChecked
    /\ EmbeddedCode(forecast_response, "401")
    /\ forecast_response.body.hasMessage
    /\ result.status = 401
    /\ result.detail.text = "Invalid key"

\* the status a "cod" value stands for: its number, or 500 when it is no number
CodStatus(cod) ==
    CASE cod.text = "200" -> 200
      [] cod.text = "401" -> 401
      [] cod.text = "404" -> 404
      [] cod.text = "429" -> 429
      [] OTHER -> 500

\* a JSON object whose "cod" is present and is not the string "200"
ErrorCod(r) ==
    /\ r.body.kind = "dict"
    /\ r.body.cod.type # "absent"
    /\ r.body.cod # [type |-> "str", text |-> "200"]

FailedWithCodStatus(r) ==
    /\ pc = "failed"
    /\ result.kind = "raised"
    /\ result.status = CodStatus(r.body.cod)

\* C5 as stated: in both steps a JSON object whose "cod" is present and not
\* "200" makes the call fail with the status taken from "cod" (500 when it is
\* no number), with or without a "message" member.  Checked on HTTP 200
\* responses and on "cod" values other than the string and the number 200.
C5_AsStated ==
    /\ (/\ GeocodeChecked
        /\ geocode_response.status = 200
        /\ ErrorCod(geocode_response)
        /\ geocode_response.body.cod.text # "200")
          => FailedWithCodStatus(geocode_response)
    /\ (/\ ForecastChecked
        /\ forecast_response.status = 200
        /\ ErrorCod(forecast_response)
        /\ forecast_response.body.cod.text # "200")
          => FailedWithCodStatus(forecast_response)

\* C5 amended: in both steps, when the HTTP status is neither 401 nor 429, a
\* JSON object that has a "message" member and whose "cod" is present and not
\* "200" makes the call fail with the status taken from "cod" (500 when it is
\* no number), whether "cod" is a string or a number.
C5_CodStatusWithMessage ==
    /\ (/\ GeocodeChecked
        /\ geocode_response.status \notin {401, 429}
        /\ ErrorCod(geocode_response)
        /\ geocode_response.body.hasMessage)
          => FailedWithCodStatus(geocode_response)
    /\ (/\ ForecastChecked
        /\ forecast_response.status \notin {401, 429}
        /\ ErrorCod(forecast_response)
        /\ forecast_response.body.hasMessage)
          => FailedWithCodStatus(forecast_response)

\* the forecast answered HTTP 200 with a numeric "cod" 404 and a message
C5_Witness ==
    /\ ForecastChecked
    /\ forecast_response.status = 200
    /\ forecast_response.body.cod = [type |-> "num", text |-> "404"]
    /\ forecast_response.body.hasMessage
    /\ result.status = 404

\* s has no leading and no trailing whitespace and is not empty
Trimmed(s) == s # <<>> /\ s[1] # " " /\ s[Len(s)] # " "

\* C6: a geocoding response without an HTTP error whose result list is empty
\* or absent (a null body or an object with no members) makes the call fail with status 404 and a "Location not found"
\* detail naming the trimmed queried location; no forecast request is issued.
C6_LocationNotFound ==
    (/\ GeocodeChecked
     /\ geocode_response.status < 400
     /\ \/ geocode_response.body.kind = "null"
        \/ geocode_response.body.kind = "list" /\ geocode_response.body.items = <<>>
        \/ /\ geocode_response.body.kind = "dict"
           /\ geocode_response.body.cod.type = "absent"
           /\ ~geocode_response.body.hasMessage
           /\ ~geocode_response.body.other)
    => /\ pc = "failed"
       /\ result.kind = "raised"
       /\ result.status = 404
       /\ result.detail.text = "Location not found"
       /\ result.detail.loc = calls[1].q
       /\ Trimmed(result.detail.loc)
       /\ Len(calls) = 1
       /\ forecast_response = NoResponse

\* an empty result list for a location passed with surrounding blanks
C6_Witness ==
    /\ pc = "failed"
    /\ geocode_response.status = 200
    /\ geocode_response.body.kind = "list"
    /\ geocode_response.body.items = <<>>
    /\ result.status = 404
    /\ result.detail.loc = <<"a">>

\* s is empty or made of whitespace only
AllBlank(s) == \A i \in 1..Len(s) : s[i] = " "

\* C7: an empty or whitespace-only location makes the call fail with status
\* 400 whatever the credentials, days and units, before any upstream request.
C7_BlankLocation ==
    (pc # "start" /\ AllBlank(location)) =>
        /\ pc = "failed"
        /\ result.kind = "raised"
        /\ result.status = 400
        /\ calls = <<>>

\* a whitespace-only location with no credential at all
C7_Witness ==
    /\ pc = "failed"
    /\ location = <<" ", " ">>
    /\ api_key = None
    /\ env_key = None
    /\ result.status = 400

\* the geocoding response passed every check of the geocoding step
GeocodePassed ==
    /\ geocode_response.status = 200
    /\ geocode_response.body.kind = "list"
    /\ geocode_response.body.items # <<>>
    /\ geocode_response.body.items[1].hasCoords

\* C8: the upstream calls are ordered and never retried: at most one geocoding
\* request, then at most one forecast request, the latter only after the
\* geocoding response passed its checks; a failed geocoding step ends the
\* call without a forecast request.
C8_SequentialNoRetry ==
    /\ Len(calls) <= 2
    /\ Len(calls) >= 1 => calls[1].endpoint = "geocode"
    /\ Len(calls) = 2 =>
          /\ calls[2].endpoint = "forecast"
          /\ GeocodePassed
          /\ pc \notin {"start", "geocode", "geocode_check", "forecast"}
    /\ (pc = "failed" /\ ~GeocodePassed) => Len(calls) <= 1 /\ forecast_response = NoResponse
    /\ pc \in {"start", "geocode"} => calls = <<>>
    /\ pc \in {"geocode_check", "forecast"} => Len(calls) = 1

\* a call that ended after the geocoding request answered with an HTTP error
C8_Witness ==
    /\ pc = "failed"
    /\ Len(calls) = 1
    /\ geocode_response.status = 404
    /\ geocode_response.body.kind = "list"
    /\ geocode_response.body.items # <<>>

\* C9: a call that fails returns an error and no Events and leaves the
\* calendar's stored events as they were; they are replaced only on full
\* success, by exactly the returned list.
C9_NoPartialResults ==
    /\ pc = "failed" =>
          /\ result.kind = "raised"
          /\ result.events = <<>>
          /\ self_events = <<>>
    /\ pc # "done" => self_events = <<>> /\ result.kind # "returned"
    /\ pc = "done" =>
          /\ result.kind = "returned"
          /\ raised = NoException
          /\ self_events = result.events
          /\ Len(result.events) = Len(sorted_days)

\* the aggregation of a later day failed after an earlier day was aggregated
C9_Witness ==
    /\ pc = "failed"
    /\ Len(events) >= 1
    /\ Len(sorted_days) > Len(events)
    /\ self_events = <<>>
    /\ result.events = <<>>

\* C10: a transport failure of either upstream call gives status 502; an
\* unexpected exception while parsing or aggregating gives status 500 with
\* the exception's message in the detail; an HTTPException raised inside
\* with status 400, 401, 429 or 404 reaches the caller unchanged.
C10_ErrorClassification ==
    pc = "failed" =>
        /\ result.kind = "raised"
        /\ (Len(calls) = 1 /\ geocode_response = NoResponse) => result.status = 502
        /\ (Len(calls) = 2 /\ forecast_response = NoResponse) => result.status = 502
        /\ raised.type = "RequestException" => result.status = 502
        /\ raised.type = "Exception" =>
              /\ result.status = 500
              /\ result.detail.msg = raised.detail.msg
              /\ raised.detail.msg # ""
        /\ sorted_days # <<>> =>
              /\ result.status = 500
              /\ result.detail.text = "Failed to fetch weather events"
        /\ (raised.type = "HTTPException" /\ raised.status \in {400, 401, 429, 404}) =>
              /\ result.status = raised.status
              /\ result.detail = raised.detail

\* the forecast request timed out
C10_Witness ==
    /\ pc = "failed"
    /\ Len(calls) = 2
    /\ forecast_response = NoResponse
    /\ raised.type = "RequestException"
    /\ result.status = 502

\* the sum of f[i] over the indices i in S
RECURSIVE SumAt(_, _)
SumAt(f, S) ==
    IF S = {} THEN 0
    ELSE LET i == CHOOSE j \in S : TRUE IN f[i] + SumAt(f, S \ {i})

\* the entries of the upstream list that fall on UTC day d: their timestamp
\* is not zero and lies in [d * 86400, (d + 1) * 86400)
EntriesOfDay(d) ==
    {i \in 1..Len(UpstreamList) :
        /\ UpstreamList[i].dt # 0
        /\ d * DaySeconds <= UpstreamList[i].dt
        /\ UpstreamList[i].dt < (d + 1) * DaySeconds}

UpstreamDegs == [i \in 1..Len(UpstreamList) |-> UpstreamList[i].deg]

\* name is the compass point of the mean sum / n: the k-th of the 16 points,
\* where mean + 11.25 lies in [22.5 * k, 22.5 * (k + 1))
CompassOfMean(name, sum, n) ==
    \E k \in 0..16 :
        /\ 90 * k * n <= 4 * sum + 45 * n
        /\ 4 * sum + 45 * n < 90 * (k + 1) * n
        /\ name = Directions[(k % 16) + 1]

\* C11: an Event has a wind direction clause exactly when some entry of its
\* day has a nonzero wind degree, and the clause then names the compass point
\* of the mean of the nonzero readings only.
C11_WindDirectionClause ==
    \A e \in 1..Len(events) :
        LET day == events[e].start \div DaySeconds
            nonzero == {i \in EntriesOfDay(day) : UpstreamList[i].deg # 0}
        IN /\ events[e].wind_dir # "" <=> nonzero # {}
           /\ nonzero # {} =>
                 CompassOfMean(events[e].wind_dir, SumAt(UpstreamDegs, nonzero),
                               Cardinality(nonzero))

\* a returned Event for a day with readings 0 and 90, whose clause names E
\* (the mean with the zero counted, 45, would name NE)
C11_Witness ==
    /\ pc = "done"
    /\ \E e \in 1..Len(result.events) :
          LET day == result.events[e].start \div DaySeconds IN
          /\ \E i \in EntriesOfDay(day) : UpstreamList[i].deg = 0
          /\ \E i \in EntriesOfDay(day) : UpstreamList[i].deg = 90
          /\ result.events[e].wind_dir = "E"

UpstreamTemps == [i \in 1..Len(UpstreamList) |-> UpstreamList[i].temp]

\* q is a / b truncated toward zero, for b > 0
IsTruncated(q, a, b) ==
    IF a >= 0 THEN q >= 0 /\ q * b <= a /\ a < (q + 1) * b
    ELSE q <= 0 /\ q * b >= a /\ a > (q - 1) * b

\* C12: the minimum, maximum and average temperature of an Event are taken
\* over exactly the upstream entries of the Event's UTC day (entries without
\* timestamp and entries of other days excluded) and shown truncated.
C12_DayTemperatures ==
    \A e \in 1..Len(events) :
        LET entries == EntriesOfDay(events[e].start \div DaySeconds) IN
        /\ entries # {}
        /\ \E i \in entries :
              /\ \A j \in entries : UpstreamTemps[i] <= UpstreamTemps[j]
              /\ IsTruncated(events[e].temp_min, UpstreamTemps[i], TempScale)
        /\ \E i \in entries :
              /\ \A j \in entries : UpstreamTemps[i] >= UpstreamTemps[j]
              /\ IsTruncated(events[e].temp_max, UpstreamTemps[i], TempScale)
        /\ IsTruncated(events[e].temp_avg, SumAt(UpstreamTemps, entries),
                       Cardinality(entries) * TempScale)

\* a returned Event for a day with temperatures 10, 15 and 20, in a forecast
\* that also has an entry without timestamp and an entry of another day:
\* minimum 10, maximum 20, average 15
C12_Witness ==
    /\ pc = "done"
    /\ \E i \in 1..Len(UpstreamList) : UpstreamList[i].dt = 0
    /\ \E e \in 1..Len(result.events) :
          LET entries == EntriesOfDay(result.events[e].start \div DaySeconds) IN
          /\ Cardinality(entries) = 3
          /\ {UpstreamTemps[i] : i \in entries} = {100, 150, 200}
          /\ \E i \in 1..Len(UpstreamList) : UpstreamList[i].dt # 0 /\ i \notin entries
          /\ result.events[e].temp_min = 10
          /\ result.events[e].temp_max = 20
          /\ result.events[e].temp_avg = 15

\* C13: every error with which the call ends carries an HTTP error status
\* (400..599), whatever the upstream responses were.
C13_ErrorStatusInRange ==
    pc = "failed" => result.status >= 400 /\ result.status <= 599

====
